---- MODULE Spec2Model ----
(***************************************************************************)
(* Model of skills/qwen3-tts-mlx/scripts/batch_dubbing.py: the generation  *)
(* loop of run_batch_dubbing, the two passes of merge_audio_files and the  *)
(* reporting / copy / clean-up tail of run_batch_dubbing.                  *)
(*                                                                         *)
(* Gap durations are floats in seconds in the program; here they are       *)
(* integers in microseconds, so that sample_rate * gap is the exact        *)
(* rational (rate * micros) / 1000000 and int() is truncation toward zero. *)
(***************************************************************************)
EXTENDS Integers, Sequences, FiniteSets, TLC

\* Longest dubbing script explored.
MaxEntries == 3

\* sample_rate = 24000 in merge_audio_files.
sample_rate == 24000

\* Script entries (dicts of the dubbing JSON); an entry may lack "voice".
ScriptEntries == { [voice |-> "Ryan"], [voice |-> "", speaker |-> "Eric"], [text |-> "hi"] }

\* (--silence-gap, --character-switch-gap) in microseconds.
GapArgs == { <<0, 125>>, <<30, 100>>, <<125, 70>>, <<100, -50>> }

\* What the TTS backend may write for a segment: (sample rate, sample count).
BackendAudio == { <<24000, 1>>, <<24000, 2>>, <<16000, 1>> }

\* Python's None for prev_speaker.
None == "<None>"

\* No merged file written.
NoFile == [rate |-> 0, samples |-> << >>]

VARIABLES
    script,                 \* segments = load_dubbing_script(args.input)
    silence_gap,            \* args.silence_gap (microseconds)
    character_switch_gap,   \* args.character_switch_gap (microseconds)
    clean_segments,         \* args.clean_segments
    pc,                     \* position in run_batch_dubbing
    i,                      \* entries of the generation loop already processed
    calls,                  \* generate_segment invocations so far, with their results
    segment_files,          \* run_batch_dubbing.segment_files
    speakers,               \* run_batch_dubbing.speakers
    seg_dir_exists,         \* segments_dir is on disk
    seg_dir_files,          \* wav files in segments_dir
    list_file,              \* lines of the concat list written by the first pass
    prev_speaker,           \* merge_audio_files.prev_speaker
    m_i,                    \* index of the second pass of merge_audio_files
    all_audio,              \* merge_audio_files.all_audio
    merge_result,           \* "not_called", "ok" (True) or "failed" (False)
    final_file,             \* the merged wav written by sf.write, or NoFile
    report                  \* messages printed about the outcome of the run

vars == << script, silence_gap, character_switch_gap, clean_segments, pc, i,
           calls, segment_files, speakers, seg_dir_exists, seg_dir_files,
           list_file, prev_speaker, m_i, all_audio, merge_result, final_file,
           report >>

----------------------------------------------------------------------------
\* Helpers

\* dict.get(key, default)
Get(seg, key, default) == IF key \in DOMAIN seg THEN seg[key] ELSE default

\* voice = seg.get("voice", seg.get("speaker", "Vivian"))
VoiceOf(seg) == Get(seg, "voice", Get(seg, "speaker", "Vivian"))

\* segments_dir / f"seg_{i+1:03d}_{voice}.wav", for the 0-based loop index idx
SegmentPath(idx, voice) == << idx + 1, voice >>

\* truthiness of a str-or-None value
Truthy(x) == x # None /\ x # ""

\* int(x) for the rational x = num / den, den > 0: truncation toward zero
IntTrunc(num, den) == IF num >= 0 THEN num \div den ELSE -((-num) \div den)

\* int(sample_rate * gap), gap in microseconds
GapSamples(gap) == IntTrunc(sample_rate * gap, 1000000)

\* the gap chosen inside either loop of merge_audio_files
ChooseGap(prev, speaker, sgap, cgap) ==
    IF Truthy(prev) /\ prev # speaker THEN cgap ELSE sgap

\* variant of NeedsGap: silence after every segment, the last included
NeedsGapAfterEvery(idx, files) == idx < Len(files)

\* the loop condition "i < len(segment_files) - 1"
NeedsGap(idx, files) == idx < Len(files) - 1

\* np.zeros(n, dtype=np.float32) for n >= 0
Zeros(n) == [j \in 1..n |-> 0]

\* len(zip(a, b))
ZipLen(a, b) == IF Len(a) <= Len(b) THEN Len(a) ELSE Len(b)

\* np.concatenate(arrays) for a non-empty list of 1-d arrays
RECURSIVE Concatenate(_)
Concatenate(arrays) ==
    IF arrays = << >> THEN << >>
    ELSE Head(arrays) \o Concatenate(Tail(arrays))

\* sf.read(seg_file) for a file of segments_dir
ReadFile(path) == CHOOSE f \in seg_dir_files : f.path = path

\* lines 72-87: the concat list and the value prev_speaker is left with
RECURSIVE ListPass(_, _, _, _)
ListPass(idx, prev, lines, n) ==
    IF idx >= n THEN [lines |-> lines, prev |-> prev]
    ELSE LET fileLine == << "file", segment_files[idx + 1] >>
             gap == ChooseGap(prev, speakers[idx + 1], silence_gap, character_switch_gap)
             out == IF NeedsGap(idx, segment_files)
                      THEN lines \o << fileLine, << "anullsrc", gap >> >>
                      ELSE Append(lines, fileLine)
         IN ListPass(idx + 1, speakers[idx + 1], out, n)

----------------------------------------------------------------------------
Scripts == UNION { [1..n -> ScriptEntries] : n \in 0..MaxEntries }

Init ==
    /\ script \in Scripts
    /\ \E g \in GapArgs : silence_gap = g[1] /\ character_switch_gap = g[2]
    /\ clean_segments \in BOOLEAN
    /\ pc = "generate"
    /\ i = 0
    /\ calls = << >>
    /\ segment_files = << >>
    /\ speakers = << >>
    /\ seg_dir_exists = TRUE
    /\ seg_dir_files = {}
    /\ list_file = << >>
    /\ prev_speaker = None
    /\ m_i = 0
    /\ all_audio = << >>
    /\ merge_result = "not_called"
    /\ final_file = NoFile
    /\ report = << >>

args == << script, silence_gap, character_switch_gap, clean_segments >>
mergeVars == << list_file, prev_speaker, m_i, all_audio, merge_result, final_file >>

\* lines 150-172: one iteration of the loop, generate_segment returned True
GenerateOk ==
    /\ pc = "generate"
    /\ i < Len(script)
    /\ LET voice == VoiceOf(script[i + 1])
           path == SegmentPath(i, voice)
       IN /\ \E a \in BackendAudio :
                seg_dir_files' = { f \in seg_dir_files : f.path # path } \cup
                    { [path |-> path, rate |-> a[1], samples |-> [j \in 1..a[2] |-> i + 1]] }
          /\ calls' = Append(calls, [idx |-> i, voice |-> voice, ok |-> TRUE])
          /\ segment_files' = Append(segment_files, path)
          /\ speakers' = Append(speakers, voice)
    /\ i' = i + 1
    /\ UNCHANGED << args, pc, seg_dir_exists, mergeVars, report >>

\* variant of GenerateFailed: the first failed generation ends the batch
GenerateFailedAborts ==
    /\ pc = "generate"
    /\ i < Len(script)
    /\ calls' = Append(calls, [idx |-> i, voice |-> VoiceOf(script[i + 1]), ok |-> FALSE])
    /\ i' = i + 1
    /\ pc' = "done"
    /\ UNCHANGED << args, segment_files, speakers, seg_dir_exists,
                    seg_dir_files, mergeVars, report >>

\* variant of GenerateFailed: the voice is recorded although no file was produced
GenerateFailedKeepsSpeaker ==
    /\ pc = "generate"
    /\ i < Len(script)
    /\ calls' = Append(calls, [idx |-> i, voice |-> VoiceOf(script[i + 1]), ok |-> FALSE])
    /\ speakers' = Append(speakers, VoiceOf(script[i + 1]))
    /\ i' = i + 1
    /\ UNCHANGED << args, pc, segment_files, seg_dir_exists,
                    seg_dir_files, mergeVars, report >>

\* lines 150-167, 173-174: one iteration, generate_segment returned False
GenerateFailed ==
    /\ pc = "generate"
    /\ i < Len(script)
    /\ calls' = Append(calls, [idx |-> i, voice |-> VoiceOf(script[i + 1]), ok |-> FALSE])
    /\ i' = i + 1
    /\ UNCHANGED << args, pc, segment_files, speakers, seg_dir_exists,
                    seg_dir_files, mergeVars, report >>

\* variant of NoSegments: the empty check is missing
NoSegmentsUnchecked(files) == FALSE

\* "if not segment_files"
NoSegments(files) == files = << >>

\* lines 176-180: the loop is over
LoopDone ==
    /\ pc = "generate"
    /\ i = Len(script)
    /\ IF NoSegments(segment_files)
         THEN /\ report' = Append(report, "No segments generated")
              /\ pc' = "done"
         ELSE /\ report' = report
              /\ pc' = "merge_list"
    /\ UNCHANGED << args, i, calls, segment_files, speakers, seg_dir_exists,
                    seg_dir_files, mergeVars >>

\* lines 72-87: the first pass of merge_audio_files writes the concat list
WriteListFile ==
    /\ pc = "merge_list"
    /\ LET r == ListPass(0, None, << >>, ZipLen(segment_files, speakers))
       IN /\ list_file' = r.lines
          /\ prev_speaker' = r.prev
    /\ m_i' = 0
    /\ all_audio' = << >>
    /\ pc' = "merge_audio"
    /\ UNCHANGED << args, i, calls, segment_files, speakers, seg_dir_exists,
                    seg_dir_files, merge_result, final_file, report >>

\* lines 110-123: one iteration of the second pass
MergeSegment ==
    /\ pc = "merge_audio"
    /\ m_i < ZipLen(segment_files, speakers)
    /\ LET speaker == speakers[m_i + 1]
           audio == ReadFile(segment_files[m_i + 1]).samples
           gap == ChooseGap(prev_speaker, speaker, silence_gap, character_switch_gap)
           n == GapSamples(gap)
       IN IF NeedsGap(m_i, segment_files)
            THEN IF n < 0
                   THEN \* np.zeros raises ValueError, caught at line 128
                        /\ merge_result' = "failed"
                        /\ report' = Append(report, "Merge failed")
                        /\ pc' = "merged"
                        /\ UNCHANGED << all_audio, prev_speaker, m_i >>
                   ELSE /\ all_audio' = all_audio \o << audio, Zeros(n) >>
                        /\ prev_speaker' = speaker
                        /\ m_i' = m_i + 1
                        /\ UNCHANGED << merge_result, report, pc >>
            ELSE /\ all_audio' = Append(all_audio, audio)
                 /\ prev_speaker' = speaker
                 /\ m_i' = m_i + 1
                 /\ UNCHANGED << merge_result, report, pc >>
    /\ UNCHANGED << args, i, calls, segment_files, speakers, seg_dir_exists,
                    seg_dir_files, list_file, final_file >>

\* line 111 raising (unreadable wav), caught at line 128
MergeReadError ==
    /\ pc = "merge_audio"
    /\ m_i < ZipLen(segment_files, speakers)
    /\ merge_result' = "failed"
    /\ report' = Append(report, "Merge failed")
    /\ pc' = "merged"
    /\ UNCHANGED << args, i, calls, segment_files, speakers, seg_dir_exists,
                    seg_dir_files, list_file, prev_speaker, m_i, all_audio,
                    final_file >>

\* lines 125-127: concatenate and write the merged file
MergeWrite ==
    /\ pc = "merge_audio"
    /\ m_i = ZipLen(segment_files, speakers)
    /\ IF all_audio = << >>
         THEN \* np.concatenate([]) raises ValueError
              /\ merge_result' = "failed"
              /\ report' = Append(report, "Merge failed")
              /\ final_file' = final_file
         ELSE /\ final_file' = [rate |-> sample_rate, samples |-> Concatenate(all_audio)]
              /\ merge_result' = "ok"
              /\ report' = report
    /\ pc' = "merged"
    /\ UNCHANGED << args, i, calls, segment_files, speakers, seg_dir_exists,
                    seg_dir_files, list_file, prev_speaker, m_i, all_audio >>

\* variant of ShouldClean: the merge result is ignored
ShouldCleanIgnoresMerge(clean, success) == clean

\* "if args.clean_segments and success"
ShouldClean(clean, success) == clean /\ success

\* lines 192-205: report the merge, copy the script, clean the segments
Finish ==
    /\ pc = "merged"
    /\ report' = Append(report, IF merge_result = "ok" THEN "Done" ELSE "Merge failed, segments kept")
    /\ IF ShouldClean(clean_segments, merge_result = "ok")
         THEN seg_dir_exists' = FALSE /\ seg_dir_files' = {}
         ELSE UNCHANGED << seg_dir_exists, seg_dir_files >>
    /\ pc' = "done"
    /\ UNCHANGED << args, i, calls, segment_files, speakers, mergeVars >>

\* line 201 raising (shutil.copy, e.g. SameFileError): the run ends before the clean-up
FinishCopyError ==
    /\ pc = "merged"
    /\ report' = Append(report, IF merge_result = "ok" THEN "Done" ELSE "Merge failed, segments kept")
    /\ pc' = "done"
    /\ UNCHANGED << args, i, calls, segment_files, speakers, seg_dir_exists,
                    seg_dir_files, mergeVars >>

Next ==
    \/ GenerateOk
    \/ GenerateFailed
    \/ LoopDone
    \/ WriteListFile
    \/ MergeSegment
    \/ MergeReadError
    \/ MergeWrite
    \/ Finish
    \/ FinishCopyError

Spec == Init /\ [][Next]_vars

----------------------------------------------------------------------------
\* Definitions used by the properties

IsOk(c) == c.ok
Successful == SelectSeq(calls, IsOk)

\* samples and rate of the k-th segment handed to the merge
SegSamples(k) == ReadFile(segment_files[k]).samples
SegRate(k) == ReadFile(segment_files[k]).rate

MergeDone == pc = "merged" /\ merge_result = "ok"

\* the silence appended after the k-th segment by the second pass
SilenceAfter(k) == all_audio[2 * k]

\* num / den rounded to the nearest integer, halves up (num >= 0, den > 0)
RoundNearest(num, den) == (2 * num + den) \div (2 * den)

RECURSIVE Interleave(_, _, _)
Interleave(segs, g, k) ==
    IF k >= Len(segs) THEN segs[k]
    ELSE segs[k] \o [j \in 1..g[k] |-> 0] \o Interleave(segs, g, k + 1)

RECURSIVE SumTo(_, _)
SumTo(f, n) == IF n = 0 THEN 0 ELSE f[n] + SumTo(f, n - 1)

----------------------------------------------------------------------------
\* C1: at every boundary between segment k and k+1 of a merged list, the
\* inserted silence has the speaker-change duration exactly when the two
\* speakers differ, and the default duration otherwise.
C1_GapFollowsBoundarySpeakers ==
    MergeDone =>
        \A k \in 1..(Len(segment_files) - 1) :
            Len(SilenceAfter(k)) =
                GapSamples(IF speakers[k] # speakers[k + 1]
                             THEN character_switch_gap ELSE silence_gap)

\* C2: when the segments handed to the merge do not all have the same sample
\* rate, the merge ends in an error and writes no merged output.
C2_MixedRatesFail ==
    (pc = "merged" /\ \E j, k \in 1..Len(segment_files) : SegRate(j) # SegRate(k))
        => (merge_result = "failed" /\ final_file = NoFile)

\* C3: every script entry gets exactly one generation attempt, in script
\* order, whatever the results of the earlier attempts; once the loop is left
\* all entries have been attempted.
C3_EveryEntryAttemptedOnce ==
    /\ Len(calls) = i
    /\ \A k \in 1..Len(calls) :
          calls[k].idx = k - 1 /\ calls[k].voice = VoiceOf(script[k])
    /\ pc # "generate" => Len(calls) = Len(script)

C3_Witness ==
    /\ pc = "done"
    /\ Len(calls) = 3
    /\ ~calls[1].ok /\ calls[2].ok /\ ~calls[3].ok

\* C4: after a failed merge the segment files are all still on disk, and the
\* segments directory is gone only if the merge succeeded and
\* --clean-segments was given.
C4_SegmentsKeptUnlessCleanAfterSuccess ==
    /\ merge_result = "failed" =>
          /\ seg_dir_exists
          /\ \A k \in 1..Len(segment_files) :
                \E f \in seg_dir_files : f.path = segment_files[k]
    /\ ~seg_dir_exists => (merge_result = "ok" /\ clean_segments)

C4_Witness ==
    /\ pc = "done"
    /\ merge_result = "failed"
    /\ clean_segments
    /\ seg_dir_exists
    /\ Len(segment_files) >= 2

\* C5: if no generation succeeded (or the script is empty) the run reports
\* "No segments generated" and the merge is never invoked; the merge is
\* invoked only after at least one successful generation.
C5_NoMergeWithoutSegments ==
    /\ (pc # "generate" /\ \A k \in 1..Len(calls) : ~calls[k].ok) =>
          /\ pc = "done"
          /\ report = << "No segments generated" >>
          /\ merge_result = "not_called"
          /\ list_file = << >>
          /\ final_file = NoFile
    /\ (pc \in {"merge_list", "merge_audio", "merged"} \/ merge_result # "not_called") =>
          \E k \in 1..Len(calls) : calls[k].ok

C5_Witness ==
    /\ pc = "done"
    /\ Len(calls) >= 2
    /\ \A k \in 1..Len(calls) : ~calls[k].ok
    /\ report = << "No segments generated" >>

\* C6: the number of zero samples inserted for a gap equals gap seconds times
\* the sample rate of the merged segments, rounded to the nearest integer.
C6_GapSamplesRounded ==
    (MergeDone /\ \A j, k \in 1..Len(segment_files) : SegRate(j) = SegRate(k)) =>
        \A k \in 1..(Len(segment_files) - 1) :
            \E gap \in {silence_gap, character_switch_gap} :
                /\ gap >= 0
                /\ Len(SilenceAfter(k)) = RoundNearest(SegRate(1) * gap, 1000000)

\* C7: the merged buffer is the segments' samples in the given order with one
\* run of silence between each pair of consecutive segments, none before the
\* first and none after the last; its length is the sum of the segment
\* lengths plus the sum of the inserted gap sample counts.
C7_MergedIsInterleaving ==
    MergeDone =>
        LET n == Len(segment_files)
            segs == [k \in 1..n |-> SegSamples(k)]
            lens == [k \in 1..n |-> Len(SegSamples(k))]
            counts == {GapSamples(silence_gap), GapSamples(character_switch_gap)} \cap Nat
        IN \E g \in [1..(n - 1) -> counts] :
              /\ final_file.samples = Interleave(segs, g, 1)
              /\ Len(final_file.samples) = SumTo(lens, n) + SumTo(g, n - 1)

C7_Witness ==
    /\ MergeDone
    /\ Len(segment_files) = 3
    /\ \A k \in 1..3 : SegRate(k) = 24000
    /\ Len(SegSamples(1)) # Len(SegSamples(2))
    /\ \A k \in 1..2 : Len(SilenceAfter(k)) > 0
    /\ Len(SilenceAfter(1)) # Len(SilenceAfter(2))

\* C8: merging a single segment gives exactly that segment's samples at that
\* segment's sample rate.
C8_SingleSegmentUnchanged ==
    (MergeDone /\ Len(segment_files) = 1) =>
        /\ final_file.samples = SegSamples(1)
        /\ final_file.rate = SegRate(1)

\* C9: when the pass that builds the merged audio handles the first segment
\* the previous-speaker marker is missing or empty, so the first gap is never
\* a speaker-change gap.
C9_FirstStepHasNoPreviousSpeaker ==
    /\ (pc = "merge_audio" /\ m_i = 0) => ~Truthy(prev_speaker)
    /\ (MergeDone /\ Len(segment_files) >= 2) =>
          Len(SilenceAfter(1)) = GapSamples(silence_gap)

\* C10: segment_files and speakers have equal length and hold exactly the
\* successfully generated entries processed so far, in script order, each
\* with its own voice label, none duplicated.
C10_ListsHoldSuccessfulEntries ==
    /\ Len(segment_files) = Len(speakers)
    /\ Len(segment_files) = Len(Successful)
    /\ \A k \in 1..Len(Successful) :
          LET e == Successful[k].idx + 1
          IN /\ segment_files[k] = SegmentPath(e - 1, VoiceOf(script[e]))
             /\ speakers[k] = VoiceOf(script[e])
    /\ \A j, k \in 1..Len(segment_files) :
          j < k => segment_files[j][1] < segment_files[k][1]

C10_Witness ==
    /\ pc = "generate"
    /\ Len(calls) = 3
    /\ calls[1].ok /\ ~calls[2].ok /\ calls[3].ok
    /\ Len(segment_files) = 2
    /\ speakers[1] # speakers[2]

====
